---- MODULE Spec2Model ----
(***************************************************************************)
(* flick-info: admission control and lifecycle coordination.               *)
(*                                                                         *)
(*  Spec       the rateLimit middleware (cmd/api/middleware.go) step by    *)
(*             step: request goroutines contending for the mutex with      *)
(*             each other and with the eviction goroutine, over a clock    *)
(*             that moves in long idle periods.                            *)
(*  TimedSpec  the same middleware with requests served one at a time, over *)
(*             a clock that also moves in quarter seconds.                 *)
(*  AddrSpec   the rateLimit variant that derives the key with             *)
(*             net.SplitHostPort, requests served one at a time.           *)
(*  PanicSpec  Spec in two goroutines whose downstream handler may panic.  *)
(*  UpdateSpec handlers that fetch a record and call its Update            *)
(*             (internal/data), the statement atomic in the database.      *)
(*  ServeSpec  serve() (graceful shutdown): the main goroutine, the        *)
(*             signal goroutine, the http.Server, in-flight requests and   *)
(*             background tasks, over a clock counted in seconds.          *)
(*                                                                         *)
(*  RateSpec   TimedSpec started from any rate in AllRates, a slow one     *)
(*             included.                                                   *)
(*                                                                         *)
(* Units of the limiter: one tick is 250ms, a rate is counted in           *)
(* 1/RateScale tokens per second and a token in TokUnit units, so a        *)
(* limiter gains exactly rps units per tick and the float arithmetic of    *)
(* rate.Limiter is exact on this grid.                                     *)
(***************************************************************************)
EXTENDS Integers, Sequences, FiniteSets, TLC

\* ---------------------------------------------------------------- bounds
NReq == 2                \* request goroutines running rateLimit at once
MaxWaits == 1            \* long idle periods (LongIdle each) on the clock
MaxFine == 2             \* quarter-second ticks explored after each of them
MaxCount == 5            \* saturation of the observation counters
NConn == 2               \* connections the server handles at once
MaxTasks == 2            \* background goroutines running at once
MaxSignals == 2          \* SIGINT/SIGTERM deliveries
MaxSTime == 7            \* the serve clock stops after MaxSTime seconds
NUpd == 3                \* requests running an update handler at once
MaxVersion == 3          \* no record is fetched for update beyond this version

\* ------------------------------------------------------ program constants
RateScale == 200         \* -limiter-rps is a float64: rates are counted in
                         \*   1/RateScale tokens per second
TicksPerSecond == 4      \* one tick = 250ms
TokUnit == TicksPerSecond * RateScale   \* units per token
HalfSecond == 2          \* 0.5s in ticks: one token's worth at 2/s
SweepInterval == 240     \* time.Sleep(time.Minute), in ticks
IdleThreshold == 720     \* 3*time.Minute, in ticks
ZeroTime == -100000      \* time.Time{} of a limiter that was never used
DefaultRps == 2 * RateScale   \* flag default of -limiter-rps: 2 per second
SlowRps == 1             \* -limiter-rps=0.005: one token in 200 seconds
DefaultBurst == 4        \* flag default of -limiter-burst
ShutdownTimeout == 5     \* context.WithTimeout(..., 5*time.Second)

Keys == {"ipA", "ipB"}   \* realip.FromRequest(r) values
Bursts == {1, 2, DefaultBurst}
Rates == {DefaultRps}
AllRates == Rates \cup {SlowRps}
Reqs == 1..NReq
Conns == 1..NConn
EvictId == 0             \* the eviction goroutine as a mutex owner
NoOwner == -1
NoTime == -1
NoStatus == 0
MaxGap == HalfSecond + 1 \* saturation of the observed wait after a denial
LongIdle == IdleThreshold + 1   \* an idle period just over the threshold

Min(a, b) == IF a < b THEN a ELSE b

VARIABLES
  enabled, rps, burst,   \* app.config.limiter
  now,                   \* time.Now(), in ticks
  clients,               \* map[string]*client: a function on the keys present
  mu,                    \* sync.Mutex: NoOwner, EvictId or a request goroutine
  req,                   \* per request goroutine: pc, ip and the status the
                         \*   handler is about to write (NoStatus if none)
  evPc, evWake,          \* eviction goroutine: position and end of its sleep
  rapid,                 \* observation: calls/admissions of a first-seen key
                         \*   while no time has elapsed since its first call
                         \*   (calls are counted up to one past the burst)
  denyAge, admGap,       \* observation: time since the last denial of a key,
                         \*   and the wait that preceded the admission after it
  solo,                  \* observation: per key, a registry that is shown
                         \*   only that key's requests (and every sweep)
  ideal,                 \* observation: per key, the bucket of a limiter that
                         \*   was created full at the start and is never
                         \*   evicted, charged one token for every admission
  evicted                \* observation: keys a sweep has deleted at this
                         \*   very instant

VARIABLES
  stime,                 \* wall clock of serve(), in seconds
  mainPc,                \* serve(): "start", "listen", "recv", "returned", "exited"
  lsErr,                 \* what srv.ListenAndServe() returned
  result,                \* what serve() returned
  exitCode,              \* process exit status once main() is over
  sigPc,                 \* signal goroutine: "start", "waitsig", "shutdown",
                         \*   "sendErr", "wait", "sendNil", "done"
  quit,                  \* signals buffered in quit (capacity 1)
  signals,               \* signals the OS delivered so far
  inShutdown,            \* srv.inShutdown: the listeners are closed
  deadlineAt,            \* deadline of ctx, NoTime before it exists
  sdErr,                 \* err := srv.Shutdown(ctx)
  conn,                  \* per connection: "none", "handling", "spawned"
  wg,                    \* app.wg counter
  tasks,                 \* background goroutines spawned and not yet ended
  running,               \* those of them that have begun to run their function
  faults,                \* observation: a background task panicked
  overrun,               \* observation: a request or task was still running
                         \*   when the deadline was reached
  retAt,                 \* observation: time at which serve() returned
  busyAtDrain,           \* observation: a request was in flight at SigCatch
  lateSpawn              \* observation: a task was spawned while draining

VARIABLES
  row,                   \* the record in its table: version and the caller
                         \*   whose values it holds (0: as inserted)
  upd,                   \* per caller of an update handler: position, the
                         \*   version in its struct and what Update returned
  wins                   \* observation: per version, the Update calls that
                         \*   read it and succeeded

limVars == <<enabled, rps, burst, now, clients, mu, req, evPc, evWake,
             rapid, denyAge, admGap, solo, ideal, evicted>>

srvVars == <<stime, mainPc, lsErr, result, exitCode, sigPc, quit, signals,
             inShutdown, deadlineAt, sdErr, conn, wg, tasks, running, faults,
             overrun, retAt, busyAtDrain, lateSpawn>>

dbVars == <<row, upd, wins>>

vars == <<limVars, srvVars, dbVars>>

\* ------------------------------------------------------- rate.Limiter
\* rate.NewLimiter(rate.Limit(rps), burst): no tokens, last = zero time.
NewLimiter == [tokens |-> 0, last |-> ZeroTime]

\* Advance without the clamp at the burst.
AdvanceNoClamp(lim, t) ==
  LET last == IF t < lim.last THEN t ELSE lim.last
  IN  lim.tokens + (t - last) * rps

\* Advance without the refill: the elapsed time is ignored.
AdvanceNoRefill(lim, t) == Min(burst * TokUnit, lim.tokens)

\* (*Limiter).advance: tokens after lazily refilling up to time t.
Advance(lim, t) ==
  LET last == IF t < lim.last THEN t ELSE lim.last
      tokens == lim.tokens + (t - last) * rps
  IN  Min(burst * TokUnit, tokens)

\* AllowOk admitting on an empty bucket.
AllowOkLoose(lim, t) == Advance(lim, t) >= 0

\* (*Limiter).Allow at time t: admitted iff one whole token is available.
AllowOk(lim, t) == Advance(lim, t) - TokUnit >= 0

\* AllowLim charging a denial with what the bucket has accrued.
AllowLimCharge(lim, t) ==
  IF AllowOk(lim, t)
    THEN [tokens |-> Advance(lim, t) - TokUnit, last |-> t]
    ELSE [tokens |-> 0, last |-> t]

\* AllowLim admitting without taking the token.
AllowLimKeep(lim, t) ==
  IF AllowOk(lim, t)
    THEN [tokens |-> Advance(lim, t), last |-> t]
    ELSE lim

\* (*Limiter).Allow at time t: the limiter afterwards (unchanged on denial).
AllowLim(lim, t) ==
  IF AllowOk(lim, t)
    THEN [tokens |-> Advance(lim, t) - TokUnit, last |-> t]
    ELSE lim

\* --------------------------------------------------- the clients map
\* ClientKey filing every address under one entry.
ClientKeyShared(ip) == "ipA"

\* The key under which the handler files a request of address ip.
ClientKey(ip) == ip

\* if _, found := clients[ip]; !found { clients[ip] = &client{limiter: ...} }
WithClient(reg, ip) ==
  IF ClientKey(ip) \in DOMAIN reg
    THEN reg
    ELSE [k \in DOMAIN reg \cup {ClientKey(ip)} |->
            IF k = ClientKey(ip) THEN [limiter |-> NewLimiter, lastSeen |-> NoTime]
                                 ELSE reg[k]]

\* Touched stamping an entry only when it is inserted.
TouchedOnInsert(reg, ip, t) ==
  [WithClient(reg, ip) EXCEPT
     ![ClientKey(ip)].lastSeen = IF ClientKey(ip) \in DOMAIN reg THEN @ ELSE t]

\* clients[ip].lastSeen = time.Now()
Touched(reg, ip, t) ==
  [WithClient(reg, ip) EXCEPT ![ClientKey(ip)].lastSeen = t]

\* clients[ip].limiter.Allow()
CheckOk(reg, ip, t) == AllowOk(Touched(reg, ip, t)[ClientKey(ip)].limiter, t)

\* the map after lines 79-90 of the handler ran for ip at time t
Checked(reg, ip, t) ==
  [Touched(reg, ip, t) EXCEPT
     ![ClientKey(ip)].limiter = AllowLim(Touched(reg, ip, t)[ClientKey(ip)].limiter, t)]

\* Stale for every entry the sweep comes across.
StaleAtOnce(c, t) == t - c.lastSeen >= 0

\* Stale with the threshold one sweep interval too long.
StaleLate(c, t) == t - c.lastSeen > IdleThreshold + SweepInterval

\* time.Since(client.lastSeen) > 3*time.Minute
Stale(c, t) == t - c.lastSeen > IdleThreshold

\* Swept deleting every entry it ranges over.
SweptAll(reg, t) == [k \in {} |-> reg[k]]

\* for ip, client := range clients { if stale { delete(clients, ip) } }
Swept(reg, t) ==
  [k \in {j \in DOMAIN reg : ~Stale(reg[j], t)} |-> reg[k]]

EmptyMap == [k \in {} |-> NewLimiter]

\* app.rateLimitExceedResponse(w, r): the status of the denial response
RateLimitExceedStatus == 429

\* r.RemoteAddr of a request: a host, with or without a port
RemoteAddrs == [host : Keys, hasPort : BOOLEAN]

\* ip, _, err := net.SplitHostPort(r.RemoteAddr): err is set ("missing port
\* in address") when the address has no port, and ip is the host otherwise
SplitHostPortErr(addr) == ~addr.hasPort
SplitHostPortHost(addr) == addr.host

StatusNotFound == 404             \* http.StatusNotFound
StatusInternalServerError == 500  \* http.StatusInternalServerError

\* app.serverErrorResponse(w, r, err): the status it passes to errorResponse
ServerErrorStatus == StatusNotFound

\* Route with the return after the denial response missing.
RouteAll(ok) == "next"

\* if !clients[ip].limiter.Allow() { ...; return }, else on to next
Route(ok) == IF ok THEN "next" ELSE "reject"

\* Unlocked with the release deferred to the return of the handler.
UnlockedDeferred(i) == i

\* mu.Unlock() on the path taken (line 91 on a denial, line 99 otherwise):
\* the owner of the mutex when goroutine i leaves its critical section
Unlocked(i) == NoOwner

\* Limited ignoring the configuration switch.
LimitedAlways == TRUE

\* if app.config.limiter.enabled { ... }
Limited == enabled

\* Continuous refill of the observation bucket up to time t, and the bucket
\* after one admission is charged to it; a bucket charged for a token it
\* did not have stays Overdrawn.
Overdrawn == [tokens |-> -1, last |-> ZeroTime]
Refilled(lim, t) ==
  IF lim = Overdrawn THEN -1
                     ELSE Min(burst * TokUnit, lim.tokens + (t - lim.last) * rps)
Charged(lim, t) ==
  IF Refilled(lim, t) < TokUnit
    THEN Overdrawn
    ELSE [tokens |-> Refilled(lim, t) - TokUnit, last |-> t]

\* ------------------------------------------------------------- Init
IdleReq == [pc |-> "idle", ip |-> "ipA", status |-> NoStatus]
NoRun == [n |-> 0, adm |-> 0]

LimInitAt(rates) ==
  /\ enabled \in BOOLEAN
  /\ rps \in rates
  /\ burst \in Bursts
  /\ now = 0
  /\ clients = EmptyMap
  /\ mu = NoOwner
  /\ req = [i \in Reqs |-> IdleReq]
  /\ evPc = "sleep"
  /\ evWake = SweepInterval
  /\ rapid = [k \in Keys |-> NoRun]
  /\ denyAge = [k \in Keys |-> NoTime]
  /\ admGap = [k \in Keys |-> NoTime]
  /\ solo = [k \in Keys |-> EmptyMap]
  /\ ideal = [k \in Keys |-> NewLimiter]
  /\ evicted = {}

LimInit == LimInitAt(Rates)

\* ----------------------------------------------------------- actions
\* The clock: a quarter second passes, or a long idle period.
Tick(d) ==
  /\ now + d <= MaxWaits * LongIdle + MaxFine
  /\ d < LongIdle => (now % LongIdle) + d <= MaxFine
  /\ now' = now + d
  /\ rapid' = [k \in Keys |-> NoRun]
  /\ denyAge' = [k \in Keys |->
                   IF denyAge[k] = NoTime THEN NoTime ELSE Min(denyAge[k] + d, MaxGap)]
  /\ admGap' = [k \in Keys |-> NoTime]
  /\ evicted' = {}
  /\ ideal' = [k \in Keys |-> IF Refilled(ideal[k], now + d) = burst * TokUnit
                                 THEN NewLimiter ELSE ideal[k]]
  /\ UNCHANGED <<enabled, rps, burst, clients, mu, req, evPc, evWake, solo,
                 srvVars, dbVars>>

\* A request of address ip enters the handler (lines 67-72): with the
\* limiter enabled it goes for the mutex, otherwise straight to next.
ReqArrive(i, ip) ==
  /\ req[i].pc = "idle"
  /\ req' = [req EXCEPT ![i] = IF Limited THEN [IdleReq EXCEPT !.pc = "lock", !.ip = ip]
                                           ELSE [IdleReq EXCEPT !.pc = "next"]]
  /\ UNCHANGED <<enabled, rps, burst, now, clients, mu, evPc, evWake,
                 rapid, denyAge, admGap, solo, ideal, evicted,
                 srvVars, dbVars>>

\* ReqLock of a lock that does not wait for its holder.
ReqLockBarging(i) ==
  /\ req[i].pc = "lock"
  /\ mu' = i
  /\ req' = [req EXCEPT ![i].pc = "crit"]
  /\ UNCHANGED <<enabled, rps, burst, now, clients, evPc, evWake,
                 rapid, denyAge, admGap, solo, ideal, evicted,
                 srvVars, dbVars>>

\* mu.Lock() (line 75)
ReqLock(i) ==
  /\ req[i].pc = "lock"
  /\ mu = NoOwner
  /\ mu' = i
  /\ req' = [req EXCEPT ![i].pc = "crit"]
  /\ UNCHANGED <<enabled, rps, burst, now, clients, evPc, evWake,
                 rapid, denyAge, admGap, solo, ideal, evicted,
                 srvVars, dbVars>>

\* Lines 79-99 for goroutine i and address ip: insert if absent, lastSeen,
\* limiter.Allow(), then mu.Unlock() on the path taken (line 91 or 99).
\* The local ip is dead from here on; the handler that runs in one step
\* keeps it, so that the key it served can be read off the state.
CheckStep(i, ip) ==
  LET ok == CheckOk(clients, ip, now)
      run == IF ClientKey(ip) \in DOMAIN clients THEN rapid[ip] ELSE NoRun
      live == ClientKey(ip) \notin DOMAIN clients \/ rapid[ip].n > 0
  IN
  /\ clients' = Checked(clients, ip, now)
  /\ mu' = Unlocked(i)
  /\ req' = [req EXCEPT ![i] =
               [pc |-> Route(ok),
                ip |-> IF req[i].pc = "crit" THEN IdleReq.ip ELSE ip,
                status |-> IF ok THEN NoStatus ELSE RateLimitExceedStatus]]
  /\ rapid' = [rapid EXCEPT ![ip] =
                 IF live THEN [n |-> Min(run.n + 1, Min(burst + 1, MaxCount)),
                               adm |-> IF ok THEN Min(run.adm + 1, MaxCount) ELSE run.adm]
                         ELSE NoRun]
  /\ denyAge' = [denyAge EXCEPT ![ip] = IF ok THEN NoTime ELSE 0]
  /\ admGap' = [admGap EXCEPT ![ip] =
                 IF ok /\ denyAge[ip] # NoTime THEN denyAge[ip] ELSE @]
  /\ solo' = [solo EXCEPT ![ip] = Checked(solo[ip], ip, now)]
  /\ ideal' = [ideal EXCEPT ![ip] = IF ok THEN Charged(@, now) ELSE @]
  /\ UNCHANGED <<enabled, rps, burst, now, evPc, evWake, evicted,
                 srvVars, dbVars>>

\* The critical section of a goroutine that holds the mutex.
ReqCheck(i) ==
  /\ req[i].pc = "crit"
  /\ mu = i
  /\ CheckStep(i, req[i].ip)

\* A request of address ip served without interleaving: lines 67-99 with the
\* mutex free on arrival.
ReqServe(i, ip) ==
  /\ req[i].pc = "idle"
  /\ mu = NoOwner
  /\ IF Limited
       THEN CheckStep(i, ip)
       ELSE /\ req' = [req EXCEPT ![i] = [IdleReq EXCEPT !.pc = "next"]]
            /\ UNCHANGED <<enabled, rps, burst, now, clients, mu, evPc, evWake,
                           rapid, denyAge, admGap, solo, ideal, evicted, srvVars, dbVars>>

\* The handler that derives the key with net.SplitHostPort, served without
\* interleaving: a failed derivation goes to app.serverErrorResponse, any
\* other request through the same critical section.
ReqServeAddr(i, addr) ==
  /\ req[i].pc = "idle"
  /\ mu = NoOwner
  /\ IF Limited /\ ~SplitHostPortErr(addr)
       THEN CheckStep(i, SplitHostPortHost(addr))
       ELSE /\ req' = [req EXCEPT ![i] =
                        IF Limited
                          THEN [IdleReq EXCEPT !.pc = "fail", !.status = ServerErrorStatus]
                          ELSE [IdleReq EXCEPT !.pc = "next"]]
            /\ UNCHANGED <<enabled, rps, burst, now, clients, mu, evPc, evWake,
                           rapid, denyAge, admGap, solo, ideal, evicted, srvVars, dbVars>>

\* app.serverErrorResponse(w, r, err); return
ReqFail(i) ==
  /\ req[i].pc = "fail"
  /\ req' = [req EXCEPT ![i] = IdleReq]
  /\ UNCHANGED <<enabled, rps, burst, now, clients, mu, evPc, evWake,
                 rapid, denyAge, admGap, solo, ideal, evicted,
                 srvVars, dbVars>>

\* app.rateLimitExceedResponse(w, r); return (lines 92-93)
ReqReject(i) ==
  /\ req[i].pc = "reject"
  /\ req' = [req EXCEPT ![i] = IdleReq]
  /\ UNCHANGED <<enabled, rps, burst, now, clients, mu, evPc, evWake,
                 rapid, denyAge, admGap, solo, ideal, evicted,
                 srvVars, dbVars>>

\* next.ServeHTTP(w, r) (line 103)
ReqNext(i) ==
  /\ req[i].pc = "next"
  /\ req' = [req EXCEPT ![i] = IdleReq]
  /\ UNCHANGED <<enabled, rps, burst, now, clients, mu, evPc, evWake,
                 rapid, denyAge, admGap, solo, ideal, evicted,
                 srvVars, dbVars>>

\* ReqPanic of a panic raised inside the critical section.
ReqPanicInCrit(i) ==
  /\ req[i].pc = "crit"
  /\ req' = [req EXCEPT ![i] = [IdleReq EXCEPT !.pc = "fail", !.status = ServerErrorStatus]]
  /\ UNCHANGED <<enabled, rps, burst, now, clients, mu, evPc, evWake,
                 rapid, denyAge, admGap, solo, ideal, evicted,
                 srvVars, dbVars>>

\* next.ServeHTTP(w, r) panics (line 103): the panic unwinds through
\* rateLimit, which has deferred nothing, to the deferred function of
\* recoverPanic (lines 22-29), which goes on to app.serverErrorResponse.
ReqPanic(i) ==
  /\ req[i].pc = "next"
  /\ req' = [req EXCEPT ![i] = [IdleReq EXCEPT !.pc = "fail", !.status = ServerErrorStatus]]
  /\ UNCHANGED <<enabled, rps, burst, now, clients, mu, evPc, evWake,
                 rapid, denyAge, admGap, solo, ideal, evicted,
                 srvVars, dbVars>>

\* eviction goroutine: time.Sleep(time.Minute) is over; mu.Lock() (50-53)
EvLock ==
  /\ evPc = "sleep"
  /\ now >= evWake
  /\ mu = NoOwner
  /\ mu' = EvictId
  /\ evPc' = "sweep"
  /\ UNCHANGED <<enabled, rps, burst, now, clients, req, evWake,
                 rapid, denyAge, admGap, solo, ideal, evicted,
                 srvVars, dbVars>>

\* eviction goroutine: the range loop, mu.Unlock(), and back to sleep (56-64)
EvSweep ==
  /\ evPc = "sweep"
  /\ mu = EvictId
  /\ clients' = Swept(clients, now)
  /\ solo' = [k \in Keys |-> Swept(solo[k], now)]
  /\ mu' = NoOwner
  /\ evPc' = "sleep"
  /\ evWake' = now + SweepInterval
  /\ evicted' = evicted \cup (DOMAIN clients \ DOMAIN Swept(clients, now))
  /\ UNCHANGED <<enabled, rps, burst, now, req, rapid, denyAge, admGap, ideal,
                 srvVars, dbVars>>

\* =================================================================
\* serve(): graceful shutdown
\* =================================================================
SrvInit ==
  /\ stime = 0
  /\ mainPc = "start"
  /\ lsErr = "none"
  /\ result = "none"
  /\ exitCode = NoTime
  /\ sigPc = "start"
  /\ quit = 0
  /\ signals = 0
  /\ inShutdown = FALSE
  /\ deadlineAt = NoTime
  /\ sdErr = "none"
  /\ conn = [c \in Conns |-> "none"]
  /\ wg = 0
  /\ tasks = 0
  /\ running = 0
  /\ faults = FALSE
  /\ overrun = FALSE
  /\ retAt = NoTime
  /\ busyAtDrain = FALSE
  /\ lateSpawn = FALSE

\* The limiter as serve() leaves it: untouched.
LimQuiet ==
  /\ enabled = TRUE
  /\ rps = DefaultRps
  /\ burst = DefaultBurst
  /\ now = 0
  /\ clients = EmptyMap
  /\ mu = NoOwner
  /\ req = [i \in Reqs |-> IdleReq]
  /\ evPc = "sleep"
  /\ evWake = SweepInterval
  /\ rapid = [k \in Keys |-> NoRun]
  /\ denyAge = [k \in Keys |-> NoTime]
  /\ admGap = [k \in Keys |-> NoTime]
  /\ solo = [k \in Keys |-> EmptyMap]
  /\ ideal = [k \in Keys |-> NewLimiter]
  /\ evicted = {}

Alive == mainPc # "exited"
Busy == \E c \in Conns : conn[c] # "none"

\* IsServerClosed taking every error for http.ErrServerClosed.
IsServerClosedAlways(err) == TRUE

\* errors.Is(err, http.ErrServerClosed)
IsServerClosed(err) == err = "ErrServerClosed"

\* CtxDone of a context without a deadline.
CtxDoneNever == FALSE

\* CtxDone of a context that is cancelled as soon as it exists.
CtxDoneAtOnce == deadlineAt # NoTime

\* <-ctx.Done() of context.WithTimeout(context.Background(), 5*time.Second)
CtxDone == deadlineAt # NoTime /\ stime >= deadlineAt

\* Shutdown leaving the listeners open.
ShutdownLeavesOpen == FALSE

\* srv.Shutdown(ctx) marks the server as shutting down and closes its listeners
ShutdownCloses == TRUE

\* Wait returning without looking at the counter.
WaitReturnsAtOnce == TRUE

\* Wait that is never woken.
WaitReturnsNever == FALSE

\* app.wg.Wait() may return
WaitReturns == wg = 0

\* Spawn: the outstanding-count is incremented before the task is launched
WgAdd(w) == w + 1

\* WgDone decrementing once in the task and once more in the recovery.
WgDoneTwice(w) == w - 2

\* Spawn: the outstanding-count is decremented when the task exits
WgDone(w) == w - 1

\* Recovered without a recovery at the task boundary.
RecoveredNever(fault) == ~fault

\* Spawn: a panic inside the task is caught and logged at the task boundary
Recovered(fault) == TRUE

PanicExit == 2           \* exit status of a Go process ended by a panic

\* QuitReady of a goroutine that receives from quit in a loop.
QuitReadyAgain == sigPc \in {"waitsig", "wait", "sendNil"} /\ quit > 0

\* s := <-quit can proceed: the goroutine is at its one receive and a signal
\* is buffered
QuitReady == sigPc = "waitsig" /\ quit > 0

\* ExitCodeOf of a main that only logs the error.
ExitCodeZero(res) == 0

\* main(): logger.PrintFatal(err, nil) calls os.Exit(1); else main returns
ExitCodeOf(res) == IF res = "nil" THEN 0 ELSE 1

\* signal goroutine: quit := make(chan os.Signal, 1); signal.Notify(...)
SigNotify ==
  /\ Alive
  /\ sigPc = "start"
  /\ sigPc' = "waitsig"
  /\ UNCHANGED <<stime, mainPc, lsErr, result, exitCode, quit, signals,
                 inShutdown, deadlineAt, sdErr, conn, wg, tasks, running, faults,
                 overrun, retAt, busyAtDrain, lateSpawn, limVars, dbVars>>

\* The OS delivers SIGINT or SIGTERM; a full quit channel drops it.
Signal ==
  /\ Alive
  /\ sigPc # "start"
  /\ signals < MaxSignals
  /\ signals' = signals + 1
  /\ quit' = 1
  /\ UNCHANGED <<stime, mainPc, lsErr, result, exitCode, sigPc,
                 inShutdown, deadlineAt, sdErr, conn, wg, tasks, running, faults,
                 overrun, retAt, busyAtDrain, lateSpawn, limVars, dbVars>>

\* s := <-quit; log; ctx with the timeout; srv.Shutdown(ctx) is entered
SigCatch ==
  /\ Alive
  /\ QuitReady
  /\ quit' = quit - 1
  /\ deadlineAt' = stime + ShutdownTimeout
  /\ inShutdown' = ShutdownCloses
  /\ sigPc' = "shutdown"
  /\ busyAtDrain' = Busy
  /\ UNCHANGED <<stime, mainPc, lsErr, result, exitCode, signals,
                 sdErr, conn, wg, tasks, running, faults, overrun, retAt, lateSpawn,
                 limVars, dbVars>>

\* ShutdownDrained of a goroutine that ends without reporting the success.
ShutdownDrainedSilent ==
  /\ Alive
  /\ sigPc = "shutdown"
  /\ ~Busy
  /\ sdErr' = "nil"
  /\ sigPc' = "done"
  /\ UNCHANGED <<stime, mainPc, lsErr, result, exitCode, quit, signals,
                 inShutdown, deadlineAt, conn, wg, tasks, running, faults,
                 overrun, retAt, busyAtDrain, lateSpawn, limVars, dbVars>>

\* srv.Shutdown(ctx) returns nil: every connection has become idle.
\* err == nil, so the goroutine goes on to app.wg.Wait().
ShutdownDrained ==
  /\ Alive
  /\ sigPc = "shutdown"
  /\ ~Busy
  /\ sdErr' = "nil"
  /\ sigPc' = "wait"
  /\ UNCHANGED <<stime, mainPc, lsErr, result, exitCode, quit, signals,
                 inShutdown, deadlineAt, conn, wg, tasks, running, faults,
                 overrun, retAt, busyAtDrain, lateSpawn, limVars, dbVars>>

\* srv.Shutdown(ctx) returns ctx.Err(): the deadline passed first.
\* err != nil, so the goroutine goes on to shutdownError <- err.
ShutdownExpired ==
  /\ Alive
  /\ sigPc = "shutdown"
  /\ CtxDone
  /\ sdErr' = "ErrDeadline"
  /\ sigPc' = "sendErr"
  /\ UNCHANGED <<stime, mainPc, lsErr, result, exitCode, quit, signals,
                 inShutdown, deadlineAt, conn, wg, tasks, running, faults,
                 overrun, retAt, busyAtDrain, lateSpawn, limVars, dbVars>>

\* app.wg.Wait() returns
SigWait ==
  /\ Alive
  /\ sigPc = "wait"
  /\ WaitReturns
  /\ sigPc' = "sendNil"
  /\ UNCHANGED <<stime, mainPc, lsErr, result, exitCode, quit, signals,
                 inShutdown, deadlineAt, sdErr, conn, wg, tasks, running, faults,
                 overrun, retAt, busyAtDrain, lateSpawn, limVars, dbVars>>

\* serve(): srv.ListenAndServe() starts accepting
MainListen ==
  /\ mainPc = "start"
  /\ ~inShutdown
  /\ mainPc' = "listen"
  /\ UNCHANGED <<stime, lsErr, result, exitCode, sigPc, quit, signals,
                 inShutdown, deadlineAt, sdErr, conn, wg, tasks, running, faults,
                 overrun, retAt, busyAtDrain, lateSpawn, limVars, dbVars>>

\* serve(): srv.ListenAndServe() returns err (http.ErrServerClosed once the
\* server is shutting down, a listen/accept failure otherwise) and the
\* errors.Is test decides between return err and the receive.
MainServeEnds(err) ==
  /\ mainPc \in {"start", "listen"}
  /\ err = "ErrServerClosed" <=> inShutdown
  /\ lsErr' = err
  /\ IF IsServerClosed(err)
       THEN /\ mainPc' = "recv"
            /\ UNCHANGED <<result, retAt>>
       ELSE /\ mainPc' = "returned"
            /\ result' = err
            /\ retAt' = stime
  /\ UNCHANGED <<stime, exitCode, sigPc, quit, signals,
                 inShutdown, deadlineAt, sdErr, conn, wg, tasks, running, faults,
                 overrun, busyAtDrain, lateSpawn, limVars, dbVars>>

\* MainRecv of a serve() that receives until the goroutine reports nil.
MainRecvLoop ==
  /\ mainPc = "recv"
  /\ sigPc \in {"sendErr", "sendNil"}
  /\ result' = IF sigPc = "sendErr" THEN sdErr ELSE "nil"
  /\ sigPc' = IF sigPc = "sendErr" THEN "wait" ELSE "done"
  /\ mainPc' = IF sigPc = "sendErr" THEN "recv" ELSE "returned"
  /\ retAt' = stime
  /\ UNCHANGED <<stime, lsErr, exitCode, quit, signals,
                 inShutdown, deadlineAt, sdErr, conn, wg, tasks, running, faults,
                 overrun, busyAtDrain, lateSpawn, limVars, dbVars>>

\* MainRecv of a serve() that keeps receiving from shutdownError.
MainRecvAgain ==
  /\ mainPc \in {"recv", "returned"}
  /\ lsErr = "ErrServerClosed"
  /\ sigPc \in {"sendErr", "sendNil"}
  /\ result' = IF sigPc = "sendErr" THEN sdErr ELSE "nil"
  /\ sigPc' = IF sigPc = "sendErr" THEN "wait" ELSE "done"
  /\ mainPc' = "returned"
  /\ retAt' = stime
  /\ UNCHANGED <<stime, lsErr, exitCode, quit, signals,
                 inShutdown, deadlineAt, sdErr, conn, wg, tasks, running, faults,
                 overrun, busyAtDrain, lateSpawn, limVars, dbVars>>

\* serve(): err = <-shutdownError meets a send of the signal goroutine on the
\* unbuffered channel; serve() returns err, or nil after the last log line.
MainRecv ==
  /\ mainPc = "recv"
  /\ sigPc \in {"sendErr", "sendNil"}
  /\ result' = IF sigPc = "sendErr" THEN sdErr ELSE "nil"
  /\ sigPc' = IF sigPc = "sendErr" THEN "wait" ELSE "done"
  /\ mainPc' = "returned"
  /\ retAt' = stime
  /\ UNCHANGED <<stime, lsErr, exitCode, quit, signals,
                 inShutdown, deadlineAt, sdErr, conn, wg, tasks, running, faults,
                 overrun, busyAtDrain, lateSpawn, limVars, dbVars>>

\* main(): err = app.serve(); PrintFatal (os.Exit(1)) on an error, else
\* main returns: the process and all its goroutines are gone.
MainExit ==
  /\ mainPc = "returned"
  /\ mainPc' = "exited"
  /\ exitCode' = ExitCodeOf(result)
  /\ UNCHANGED <<stime, lsErr, result, sigPc, quit, signals,
                 inShutdown, deadlineAt, sdErr, conn, wg, tasks, running, faults,
                 overrun, retAt, busyAtDrain, lateSpawn, limVars, dbVars>>

\* The server accepts a connection and starts its handler.
Accept(c) ==
  /\ Alive
  /\ mainPc = "listen"
  /\ ~inShutdown
  /\ conn[c] = "none"
  /\ conn' = [conn EXCEPT ![c] = "handling"]
  /\ UNCHANGED <<stime, mainPc, lsErr, result, exitCode, sigPc, quit, signals,
                 inShutdown, deadlineAt, sdErr, wg, tasks, running, faults,
                 overrun, retAt, busyAtDrain, lateSpawn, limVars, dbVars>>

\* registerUserHandler reaches app.background(func() { ...mailer.Send... })
HandlerSpawn(c) ==
  /\ Alive
  /\ conn[c] = "handling"
  /\ tasks < MaxTasks
  /\ conn' = [conn EXCEPT ![c] = "spawned"]
  /\ wg' = WgAdd(wg)
  /\ tasks' = tasks + 1
  /\ lateSpawn' = (lateSpawn \/ deadlineAt # NoTime)
  /\ UNCHANGED <<stime, mainPc, lsErr, result, exitCode, sigPc, quit, signals,
                 inShutdown, deadlineAt, sdErr, running, faults, overrun, retAt,
                 busyAtDrain, limVars, dbVars>>

\* A handler returns and its connection becomes idle.
HandlerDone(c) ==
  /\ Alive
  /\ conn[c] # "none"
  /\ conn' = [conn EXCEPT ![c] = "none"]
  /\ UNCHANGED <<stime, mainPc, lsErr, result, exitCode, sigPc, quit, signals,
                 inShutdown, deadlineAt, sdErr, wg, tasks, running, faults,
                 overrun, retAt, busyAtDrain, lateSpawn, limVars, dbVars>>

\* A spawned background goroutine is scheduled and begins to run its function.
TaskStart ==
  /\ Alive
  /\ running < tasks
  /\ running' = running + 1
  /\ UNCHANGED <<stime, mainPc, lsErr, result, exitCode, sigPc, quit, signals,
                 inShutdown, deadlineAt, sdErr, conn, wg, tasks, faults,
                 overrun, retAt, busyAtDrain, lateSpawn, limVars, dbVars>>

\* A running background goroutine ends, by returning or by a panic: a
\* recovered panic is logged and the goroutine ends like any other, an
\* unrecovered one ends the process.
TaskDone(fault) ==
  /\ Alive
  /\ running > 0
  /\ IF Recovered(fault)
       THEN /\ tasks' = tasks - 1
            /\ running' = running - 1
            /\ wg' = WgDone(wg)
            /\ faults' = (faults \/ fault)
            /\ UNCHANGED <<mainPc, exitCode>>
       ELSE /\ mainPc' = "exited"
            /\ exitCode' = PanicExit
            /\ UNCHANGED <<tasks, running, wg, faults>>
  /\ UNCHANGED <<stime, lsErr, result, sigPc, quit, signals,
                 inShutdown, deadlineAt, sdErr, conn, overrun, retAt,
                 busyAtDrain, lateSpawn, limVars, dbVars>>

\* A step of serve(), main() or the signal goroutine is ready to run: such
\* steps take no time on the scale of the clock.
Ready ==
  \/ mainPc \in {"start", "returned"}
  \/ mainPc = "listen" /\ inShutdown
  \/ mainPc = "recv" /\ sigPc \in {"sendErr", "sendNil"}
  \/ sigPc = "start"
  \/ QuitReady
  \/ sigPc = "shutdown" /\ (~Busy \/ CtxDone)
  \/ sigPc = "wait" /\ WaitReturns

\* One second passes while requests and tasks run and goroutines block.
STick ==
  /\ Alive
  /\ ~Ready
  /\ stime < MaxSTime
  /\ stime' = stime + 1
  /\ overrun' = (overrun \/ (deadlineAt # NoTime /\ stime + 1 >= deadlineAt
                              /\ (Busy \/ tasks > 0)))
  /\ UNCHANGED <<mainPc, lsErr, result, exitCode, sigPc, quit, signals,
                 inShutdown, deadlineAt, sdErr, conn, wg, tasks, running, faults,
                 retAt, busyAtDrain, lateSpawn, limVars, dbVars>>

\* =================================================================
\* Record updates (internal/data): optimistic locking on version
\* =================================================================
Updaters == 1..NUpd
ErrEditConflict == "ErrEditConflict"
FirstVersion == 1        \* "Version starts at 1" (the column default)

IdleUpd == [pc |-> "idle", version |-> 0, out |-> "none"]

DbInit ==
  /\ row = [version |-> FirstVersion, data |-> 0]
  /\ upd = [i \in Updaters |-> IdleUpd]
  /\ wins = [v \in FirstVersion..MaxVersion |-> 0]

\* VersionMatches without the version in the WHERE clause.
VersionMatchesAny(r, v) == TRUE

\* UPDATE ... WHERE id = $5 AND version = $6: the statement finds the row
VersionMatches(r, v) == r.version = v

\* the handler fetches the record: Movies.Get(id), Users.GetForToken(...)
Get(i) ==
  /\ upd[i].pc = "idle"
  /\ row.version <= MaxVersion
  /\ upd' = [upd EXCEPT ![i] = [pc |-> "read", version |-> row.version, out |-> "none"]]
  /\ UNCHANGED <<row, wins, limVars, srvVars>>

\* Update(record): the one UPDATE statement, which the database runs
\* atomically on the row. With the row found it sets the new values and
\* version = version + 1, and RETURNING version is scanned into the struct;
\* with no row found Scan gives sql.ErrNoRows and Update ErrEditConflict.
Update(i) ==
  /\ upd[i].pc = "read"
  /\ IF VersionMatches(row, upd[i].version)
       THEN /\ row' = [version |-> row.version + 1, data |-> i]
            /\ upd' = [upd EXCEPT ![i] = [pc |-> "done", version |-> row.version + 1,
                                          out |-> "nil"]]
            /\ wins' = [wins EXCEPT ![upd[i].version] = @ + 1]
       ELSE /\ upd' = [upd EXCEPT ![i].pc = "done", ![i].out = ErrEditConflict]
            /\ UNCHANGED <<row, wins>>
  /\ UNCHANGED <<limVars, srvVars>>

\* the handler writes its response and the request is over
UpdReturn(i) ==
  /\ upd[i].pc = "done"
  /\ upd' = [upd EXCEPT ![i] = IdleUpd]
  /\ UNCHANGED <<row, wins, limVars, srvVars>>

UpdateNext ==
  \/ \E i \in Updaters : Get(i)
  \/ \E i \in Updaters : Update(i)
  \/ \E i \in Updaters : UpdReturn(i)

UpdateInit == LimQuiet /\ SrvInit /\ DbInit

UpdateSpec == UpdateInit /\ [][UpdateNext]_vars

Init == LimInit /\ SrvInit /\ DbInit

Next ==
  \/ Tick(LongIdle)
  \/ \E i \in Reqs, ip \in Keys : ReqArrive(i, ip)
  \/ \E i \in Reqs : ReqLock(i)
  \/ \E i \in Reqs : ReqCheck(i)
  \/ \E i \in Reqs : ReqReject(i)
  \/ \E i \in Reqs : ReqNext(i)
  \/ EvLock
  \/ EvSweep

Spec == Init /\ [][Next]_vars

TimedNext ==
  \/ \E d \in {1, LongIdle} : Tick(d)
  \/ \E ip \in Keys : ReqServe(1, ip)
  \/ ReqReject(1)
  \/ ReqNext(1)
  \/ EvLock
  \/ EvSweep

TimedSpec == Init /\ [][TimedNext]_vars

\* The limiter configured with any rate of AllRates; the slow rate is
\* explored enabled and with the smallest burst.
RateInit ==
  /\ LimInitAt(AllRates)
  /\ rps = SlowRps => (enabled /\ burst = 1)
  /\ SrvInit
  /\ DbInit

RateSpec == RateInit /\ [][TimedNext]_vars

\* The handler step by step in two goroutines, with downstream handlers
\* that may panic, the limiter enabled and with the smallest burst.
PanicReqs == {1, 2}

PanicInit == Init /\ enabled /\ burst = 1

PanicNext ==
  \/ Tick(LongIdle)
  \/ \E i \in PanicReqs, ip \in Keys : ReqArrive(i, ip)
  \/ \E i \in PanicReqs : ReqLock(i)
  \/ \E i \in PanicReqs : ReqCheck(i)
  \/ \E i \in PanicReqs : ReqReject(i)
  \/ \E i \in PanicReqs : ReqNext(i)
  \/ \E i \in PanicReqs : ReqPanic(i)
  \/ \E i \in PanicReqs : ReqFail(i)
  \/ EvLock
  \/ EvSweep

PanicSpec == PanicInit /\ [][PanicNext]_vars

\* Scheduling: the holder of the mutex runs on to its Unlock, and sync.Mutex
\* does not starve a goroutine that keeps waiting in Lock.
PanicFairSpec ==
  /\ PanicSpec
  /\ WF_vars(\E i \in Reqs : ReqCheck(i))
  /\ WF_vars(EvSweep)
  /\ \A i \in Reqs : SF_vars(ReqLock(i))
  /\ SF_vars(EvLock)

AddrNext ==
  \/ \E d \in {1, LongIdle} : Tick(d)
  \/ \E addr \in RemoteAddrs : ReqServeAddr(1, addr)
  \/ ReqFail(1)
  \/ ReqReject(1)
  \/ ReqNext(1)
  \/ EvLock
  \/ EvSweep

AddrSpec == Init /\ [][AddrNext]_vars

ServeInit == SrvInit /\ LimQuiet /\ DbInit

ServeNext ==
  \/ SigNotify
  \/ Signal
  \/ SigCatch
  \/ ShutdownDrained
  \/ ShutdownExpired
  \/ SigWait
  \/ MainListen
  \/ \E err \in {"ErrServerClosed", "ErrListen"} : MainServeEnds(err)
  \/ MainRecv
  \/ MainExit
  \/ \E c \in Conns : Accept(c)
  \/ \E c \in Conns : HandlerSpawn(c)
  \/ \E c \in Conns : HandlerDone(c)
  \/ TaskStart
  \/ \E fault \in BOOLEAN : TaskDone(fault)
  \/ STick

ServeSpec == ServeInit /\ [][ServeNext]_vars

\* Scheduling: a goroutine that can run is eventually run, and a background
\* task that runs eventually ends.
ServeFairSpec ==
  /\ ServeSpec
  /\ WF_vars(SigWait)
  /\ WF_vars(TaskStart)
  /\ WF_vars(\E fault \in BOOLEAN : TaskDone(fault))

\* Scheduling of serve() itself: every goroutine that can take its next step
\* eventually takes it, ListenAndServe returns once the server is shutting
\* down, and a request handler eventually returns.
CoordStep ==
  \/ SigCatch
  \/ ShutdownDrained
  \/ ShutdownExpired
  \/ SigWait
  \/ MainServeEnds("ErrServerClosed")
  \/ MainRecv

WorkStep ==
  \/ \E c \in Conns : HandlerDone(c)
  \/ TaskStart
  \/ \E fault \in BOOLEAN : TaskDone(fault)

ServeLiveSpec ==
  /\ ServeSpec
  /\ WF_vars(CoordStep)
  /\ WF_vars(WorkStep)

\* =================================================================
\* Properties of the rate limiter (checked under Spec and TimedSpec)
\* =================================================================
\* The limiter has just decided the request of goroutine i, for the key
\* DecidedKey(i)
Decided(i) ==
  /\ enabled
  /\ req[i].pc \in {"idle", "crit"}
  /\ req'[i].pc \in {"next", "reject"}

DecidedKey(i) == IF req[i].pc = "crit" THEN req[i].ip ELSE req'[i].ip

\* C1: a first-seen key that issues requests with no time elapsing between
\* them has exactly its first burst requests admitted (4 at the default
\* rate=2/s, burst=4) and every request after them denied.
C1_BurstThenDeny ==
  \A k \in Keys : rapid[k].n > 0 => rapid[k].adm = Min(rapid[k].n, burst)

C1_Witness ==
  /\ rps = DefaultRps
  /\ burst = DefaultBurst
  /\ \E k \in Keys : rapid[k].n = burst + 1 /\ rapid[k].adm = burst
  /\ \E i \in Reqs : req[i].pc = "reject"

\* C4: the eviction goroutine never leaves its loop; a sweep that runs when
\* a key's lastSeen is older than the idle threshold leaves no entry for the
\* key; and a request for a key without an entry is treated as first-seen:
\* it is admitted from a fresh bucket holding the full burst.
C4_EvictThenFresh ==
  [][ /\ evPc' \in {"sleep", "sweep"}
      /\ (evPc = "sweep" /\ evPc' = "sleep") =>
           \A k \in DOMAIN clients :
              now - clients[k].lastSeen > IdleThreshold => k \notin DOMAIN clients'
      /\ \A i \in Reqs :
           (Decided(i) /\ DecidedKey(i) \notin DOMAIN clients) =>
              /\ req'[i].pc = "next"
              /\ clients'[DecidedKey(i)].limiter.tokens = (burst - 1) * TokUnit
              /\ clients'[DecidedKey(i)].lastSeen = now
    ]_vars

C4_Witness ==
  \E k \in Keys :
    /\ k \in evicted
    /\ k \in DOMAIN clients
    /\ rapid[k].n = 1
    /\ clients[k].limiter.tokens = (burst - 1) * TokUnit

\* C5: the admit/deny result of every request of a key is the result a
\* registry gives that has been shown that key's requests (at the same
\* times) and none of any other key: other keys never influence it.
C5_KeysIndependent ==
  [][ \A i \in Reqs :
        Decided(i) =>
          ((req'[i].pc = "next") = CheckOk(solo[DecidedKey(i)], DecidedKey(i), now))
    ]_vars

C5_Witness ==
  /\ DOMAIN clients = Keys
  /\ denyAge["ipB"] = 0
  /\ rapid["ipA"].adm >= 1
  /\ clients["ipA"].lastSeen = now
  /\ clients["ipB"].lastSeen = now
  /\ \E i \in Reqs : req[i].pc = "next" /\ req[i].ip = "ipA"

C7_ExactlyOneAfterWait ==
  [][ \A i \in Reqs :
        (Decided(i) /\ rps = DefaultRps) =>
          /\ (denyAge[DecidedKey(i)] # NoTime /\ denyAge[DecidedKey(i)] >= HalfSecond)
                => req'[i].pc = "next"
          /\ (admGap[DecidedKey(i)] # NoTime /\ admGap[DecidedKey(i)] >= HalfSecond)
                => req'[i].pc = "reject"
    ]_vars

\* C7 amended: at rate=2/s and burst >= 1, after a denial, a wait of at least
\* 0.5s makes the next request of the key admitted; when the wait was
\* exactly 0.5s, a further immediate request is denied again.
C7_OneAfterHalfSecond ==
  [][ \A i \in Reqs :
        (Decided(i) /\ rps = DefaultRps) =>
          /\ (denyAge[DecidedKey(i)] # NoTime /\ denyAge[DecidedKey(i)] >= HalfSecond)
                => req'[i].pc = "next"
          /\ admGap[DecidedKey(i)] = HalfSecond
                => req'[i].pc = "reject"
    ]_vars

C7_Witness ==
  /\ rps = DefaultRps
  /\ \E k \in Keys : admGap[k] = HalfSecond /\ denyAge[k] = 0

\* C14: with the limiter enabled a request reaches the next handler only
\* when Allow admitted it; a denied request is answered with 429 and never
\* reaches the next handler, and an admitted request invokes it once.
C14_OnlyAdmittedReachNext ==
  [][ \A i \in Reqs :
        /\ Decided(i) =>
              ((req'[i].pc = "next") = CheckOk(clients, DecidedKey(i), now))
        /\ (enabled /\ req[i].pc # "next" /\ req'[i].pc = "next") => Decided(i)
        /\ req[i].pc = "reject" =>
              /\ req[i].status = 429
              /\ req'[i].pc \in {"reject", "idle"}
        /\ req[i].pc = "next" =>
              /\ req[i].status = NoStatus
              /\ req'[i].pc \in {"next", "idle"}
    ]_vars

C14_Witness ==
  \E i, j \in Reqs :
    /\ req[i].pc = "reject"
    /\ req[i].status = 429
    /\ req[j].pc = "next"
    /\ \E k \in Keys : denyAge[k] = 0 /\ rapid[k].n = burst + 1

\* Whole tokens a request of key k finds at this instant: the bucket of its
\* entry lazily refilled, or a fresh bucket when it has no entry.
WholeTokens(k) ==
  Advance(IF k \in DOMAIN clients THEN clients[k].limiter ELSE NewLimiter, now)
    \div TokUnit

\* C19: requests of one key are decided one at a time under the mutex, each
\* admission takes exactly one whole token and nothing else changes the
\* tokens while no time passes; so of n concurrent requests against k whole
\* tokens exactly min(n, k) are admitted: a request is denied only with no
\* whole token left, and after a denial at this instant none is left.
C19_NoDoubleSpend ==
  /\ [](\A k \in Keys : denyAge[k] = 0 => WholeTokens(k) = 0)
  /\ [][ /\ \A i \in Reqs, k \in Keys :
              (Decided(i) /\ k = DecidedKey(i)) =>
                /\ mu = i
                /\ (req'[i].pc = "next") = (WholeTokens(k) >= 1)
                /\ WholeTokens(k)' =
                      WholeTokens(k) - (IF req'[i].pc = "next" THEN 1 ELSE 0)
                /\ \A j \in Keys \ {k} : WholeTokens(j)' = WholeTokens(j)
         /\ ((\A i \in Reqs : ~Decided(i)) /\ now' = now) =>
              \A k \in Keys : WholeTokens(k)' = WholeTokens(k)
       ]_vars

C19_Witness ==
  /\ burst = DefaultBurst
  /\ \E k \in Keys :
       /\ WholeTokens(k) = 1
       /\ \E i, j \in Reqs :
            /\ req[i].pc = "crit" /\ req[i].ip = k
            /\ req[j].pc = "lock" /\ req[j].ip = k

\* C20: the map and its entries change only in a step of the goroutine that
\* holds the mutex (a handler in its critical section or the sweep), and at
\* most one of the handlers' critical sections and the sweep is in progress.
C20_MapUnderMutex ==
  /\ [](Cardinality({i \in Reqs : req[i].pc = "crit"})
          + (IF evPc = "sweep" THEN 1 ELSE 0) <= 1)
  /\ [](\A i \in Reqs : req[i].pc = "crit" <=> mu = i)
  /\ [](evPc = "sweep" <=> mu = EvictId)
  /\ [][ clients' # clients =>
           \/ \E i \in Reqs : req[i].pc = "crit" /\ mu = i /\ req'[i].pc # "crit"
           \/ evPc = "sweep" /\ mu = EvictId /\ evPc' = "sleep"
       ]_vars

C20_Witness ==
  /\ evPc = "sweep"
  /\ \A i \in Reqs : req[i].pc = "lock"
  /\ \E k \in DOMAIN clients : Stale(clients[k], now)

\* C21: on the admit path and on the deny path alike the handler has released
\* the mutex before it writes the 429 response and before it calls the next
\* handler: a goroutine that is writing the response or running downstream
\* does not own the mutex, and these steps leave the mutex as it is, free for
\* the other requests and for the sweep.
C21_UnlockBeforeResponse ==
  /\ [](\A i \in Reqs : req[i].pc \in {"next", "reject"} => mu # i)
  /\ [][\A i \in Reqs :
          (req[i].pc \in {"next", "reject"} /\ req'[i].pc # req[i].pc) =>
             /\ mu # i
             /\ mu' = mu
             /\ clients' = clients
       ]_vars
  /\ [][\A i \in Reqs :
          (enabled /\ req[i].pc = "crit" /\ req'[i].pc # "crit") =>
             /\ req'[i].pc \in {"next", "reject"}
             /\ mu = i
             /\ mu' = NoOwner
       ]_vars

C21_Witness ==
  /\ mu = EvictId
  /\ \E i, j \in Reqs :
       /\ req[i].pc = "next"
       /\ req[j].pc = "reject"
       /\ req[j].status = RateLimitExceedStatus

\* Waits after which the next request of a key is looked at
Later == {0, 1, HalfSecond, MaxGap, LongIdle}

\* C22: a denial takes nothing from the bucket: the limiter of the key is
\* left as it was, so the tokens available after the denial are the lazily
\* recomputed amount before it (less than one whole token), and at every
\* later time the key has the tokens, and gets the decision, it would have
\* had without the denied request.
C22_DenialIsFree ==
  [][\A i \in Reqs, k \in Keys :
       (Decided(i) /\ k = DecidedKey(i) /\ req'[i].pc = "reject") =>
          /\ k \in DOMAIN clients
          /\ clients'[k].limiter = clients[k].limiter
          /\ Advance(clients[k].limiter, now) < TokUnit
          /\ \A d \in Later :
               /\ Advance(clients'[k].limiter, now + d)
                    = Advance(clients[k].limiter, now + d)
               /\ AllowOk(clients'[k].limiter, now + d)
                    = AllowOk(clients[k].limiter, now + d)
    ]_vars

\* denied twice a quarter second apart, with half a token accrued between
C22_Witness ==
  \E k \in DOMAIN clients :
    /\ denyAge[k] = 0
    /\ clients[k].lastSeen = now
    /\ clients[k].limiter.last = now - 1
    /\ Advance(clients[k].limiter, now) \in 1..(TokUnit - 1)
    /\ \E i \in Reqs : req[i].pc = "reject"

\* Tokens (in TokUnit-ths) a request of key k finds at this instant
Available(k) ==
  Advance(IF k \in DOMAIN clients THEN clients[k].limiter ELSE NewLimiter, now)

\* C23: for every key in the registry the token level, as stored and as
\* lazily refilled, is between 0 and the burst, however long the key was
\* idle; and the available tokens of a key go down only in an admitting
\* step for that key that found at least one whole token, by exactly one.
C23_TokensWithinCapacity ==
  /\ [](\A k \in DOMAIN clients :
          /\ 0 <= clients[k].limiter.tokens
          /\ clients[k].limiter.tokens <= burst * TokUnit
          /\ 0 <= Advance(clients[k].limiter, now)
          /\ Advance(clients[k].limiter, now) <= burst * TokUnit)
  /\ [][\A k \in Keys :
          Available(k)' < Available(k) =>
             /\ \E i \in Reqs :
                  Decided(i) /\ k = DecidedKey(i) /\ req'[i].pc = "next"
             /\ Available(k) >= TokUnit
             /\ Available(k)' = Available(k) - TokUnit
       ]_vars

\* an entry idle for longer than it takes to fill the bucket, not yet swept
C23_Witness ==
  \E k \in DOMAIN clients :
    /\ clients[k].limiter.last # ZeroTime
    /\ now - clients[k].limiter.last >= LongIdle
    /\ clients[k].limiter.tokens + (now - clients[k].limiter.last) * rps
          > burst * TokUnit
    /\ Available(k) = burst * TokUnit

\* C24: every call of Allow for a key, admitted or denied, leaves the key in
\* the registry with lastSeen at the time of the call; an entry is deleted
\* only by the sweep and only when its lastSeen is more than the idle
\* threshold ago, so a key whose requests (denied ones included) are less
\* than the threshold apart is never evicted: a key denied a moment ago is
\* present, with lastSeen no older than that denial.
C24_SeenOnEveryCall ==
  /\ [][\A i \in Reqs, k \in Keys :
          (Decided(i) /\ k = DecidedKey(i)) =>
             /\ k \in DOMAIN clients'
             /\ clients'[k].lastSeen = now
       ]_vars
  /\ [][\A k \in DOMAIN clients :
          k \notin DOMAIN clients' =>
             /\ evPc = "sweep"
             /\ now - clients[k].lastSeen > IdleThreshold
       ]_vars
  /\ [](\A k \in Keys :
          (denyAge[k] # NoTime /\ denyAge[k] < MaxGap) =>
             /\ k \in DOMAIN clients
             /\ now - clients[k].lastSeen <= denyAge[k])
  /\ [](\A k \in Keys :
          rapid[k].n > 0 => k \in DOMAIN clients /\ clients[k].lastSeen = now)

\* a key whose last request was denied a moment ago has been through a sweep
C24_Witness ==
  /\ evPc = "sleep"
  /\ evWake = now + SweepInterval
  /\ \E k \in DOMAIN clients :
       /\ denyAge[k] \in 1..(MaxGap - 1)
       /\ clients[k].lastSeen = now - denyAge[k]
       /\ clients[k].limiter.last < clients[k].lastSeen

\* C25: a sweep deletes exactly the entries whose lastSeen is more than the
\* idle threshold ago: an entry seen within the threshold survives, and
\* the limiter and the lastSeen of every survivor are as before the sweep.
C25_SweepDeletesOnlyStale ==
  [][(evPc = "sweep" /\ evPc' = "sleep") =>
       /\ DOMAIN clients' =
            {k \in DOMAIN clients : now - clients[k].lastSeen <= IdleThreshold}
       /\ \A k \in DOMAIN clients' : clients'[k] = clients[k]
    ]_vars

\* one sweep that deleted an entry and passed over another
C25_Witness ==
  /\ evicted # {}
  /\ evPc = "sleep"
  /\ \E k \in DOMAIN clients :
       /\ clients[k].lastSeen < now
       /\ clients[k].limiter.tokens > 0

\* The admissions of key k fit burst + rate*t in every window of length t
\* exactly when a bucket of capacity burst that starts full, refills
\* continuously at the rate and is never evicted can pay one token for each
\* of them: ideal[k] is that bucket and it is never overdrawn.
Covered(k) == ideal[k].tokens >= 0

\* A drained bucket is full again before its entry can be evicted.
RefillsWithinThreshold == burst * TokUnit <= rps * IdleThreshold

\* C26: for every key, every rate and every burst, the requests admitted in
\* any window of length t number at most burst + rate*t, evictions and
\* re-creations of the key's entry included.
C26_WindowBound == \A k \in Keys : Covered(k)

\* C26 (amended): the bound holds for every key under every rate and burst
\* with burst <= rate * idle threshold, the defaults included: an entry is
\* evicted only after its bucket has refilled completely.
C26_WindowBoundWhenRefilled ==
  RefillsWithinThreshold => \A k \in Keys : Covered(k)

\* evicted at this instant, created again and its whole burst admitted
C26_Witness ==
  /\ RefillsWithinThreshold
  /\ \E k \in evicted :
       /\ k \in DOMAIN clients
       /\ rapid[k].adm = burst
       /\ denyAge[k] = 0
       /\ ideal[k].tokens = 0

\* C29: a panic of the downstream handler strikes a goroutine that has
\* already released the mutex and leaves the mutex as it is; a goroutine
\* that is not in its critical section, whether its request is still to
\* come, being answered or over (normally or by a panic), never owns it; so
\* a request waiting in Lock and a sweep that is due eventually get the lock.
C29_PanicLeavesLockFree ==
  /\ [](\A i \in Reqs : req[i].pc # "crit" => mu # i)
  /\ [][\A i \in Reqs :
          (req[i].pc = "next" /\ req'[i].pc = "fail") =>
             (mu # i /\ mu' = mu /\ clients' = clients)
       ]_vars
  /\ \A i \in Reqs : (req[i].pc = "lock") ~> (req[i].pc = "crit")
  /\ (evPc = "sleep" /\ now >= evWake) ~> (evPc = "sweep")

\* a request has ended by a panic and another one, which arrived later, is
\* in its critical section
C29_Witness ==
  \E i, j \in Reqs :
    /\ req[i].pc = "fail"
    /\ req[i].status = ServerErrorStatus
    /\ req[j].pc = "crit"
    /\ mu = j

\* C15: a request whose key cannot be derived is answered with 500 Internal
\* Server Error, never with the denial response, and does not reach the
\* next handler.
C15_KeyFailureIs500 ==
  /\ [](\A i \in Reqs :
          req[i].pc = "fail" => req[i].status = StatusInternalServerError)
  /\ [][\A i \in Reqs : req[i].pc = "fail" => req'[i].pc \in {"fail", "idle"}]_vars

\* =================================================================
\* Properties of serve() (checked under ServeSpec)
\* =================================================================
Returned == mainPc \in {"returned", "exited"}
Draining == deadlineAt # NoTime
Waiting == sigPc \in {"wait", "sendNil", "done"}
NoNewConn == \A c \in Conns : conn[c] = "none" => conn'[c] = "none"

C3_GracefulSuccess ==
  /\ []((Returned /\ Draining /\ ~overrun /\ lsErr = "ErrServerClosed") =>
          /\ result = "nil"
          /\ ~Busy
          /\ tasks = 0
          /\ retAt < deadlineAt)
  /\ [][Draining => NoNewConn]_vars

C3_Witness ==
  /\ mainPc = "returned"
  /\ result = "nil"
  /\ busyAtDrain
  /\ ~overrun
  /\ retAt > deadlineAt - ShutdownTimeout

\* C8: serve() returns nil only when Shutdown returned without error and the
\* outstanding-task count is zero, tasks spawned by requests that were in
\* flight when draining began included.
C8_SuccessMeansDrained ==
  (Returned /\ result = "nil") =>
     /\ sdErr = "nil"
     /\ wg = 0
     /\ tasks = 0

C8_Witness ==
  /\ mainPc = "returned"
  /\ result = "nil"
  /\ busyAtDrain
  /\ lateSpawn

\* C9: app.wg.Wait() is started only after srv.Shutdown has been called and
\* has returned, and no connection is admitted from then on.
C9_ShutdownBeforeWait ==
  /\ [](Waiting => (sdErr # "none" /\ inShutdown))
  /\ [][Waiting => NoNewConn]_vars

C9_Witness ==
  /\ sigPc = "wait"
  /\ sdErr = "ErrDeadline"
  /\ Busy
  /\ tasks > 0

\* C10: when ListenAndServe ends with http.ErrServerClosed serve() does not
\* return it but receives the drain outcome from shutdownError; when it ends
\* with any other error serve() has returned that error in the same step,
\* whatever the signal goroutine, the server and the tasks are doing.
C10_ServerClosedIsNotFatal ==
  /\ lsErr = "ErrServerClosed" =>
        \/ mainPc = "recv" /\ result = "none"
        \/ Returned /\ result = (IF sdErr = "ErrDeadline" THEN sdErr ELSE "nil")
  /\ lsErr = "ErrListen" => (Returned /\ result = "ErrListen")
  /\ lsErr = "none" => mainPc \in {"start", "listen"}

C10_Witness ==
  /\ lsErr = "ErrListen"
  /\ mainPc = "returned"
  /\ sigPc = "waitsig"
  /\ Busy
  /\ wg > 0

\* C11: every spawn increments the outstanding-count by one before the task
\* runs and every task exit, normal or by a caught fault, decrements it by
\* one; the count always equals the number of spawned-but-unfinished tasks
\* and is never negative.
C11_CountMatchesTasks ==
  /\ [](wg = tasks /\ wg >= 0 /\ running <= wg)
  /\ [][ /\ tasks' > tasks => (wg' = wg + 1 /\ running' = running)
         /\ tasks' < tasks => (wg' = wg - 1 /\ running' = running - 1)
         /\ wg' # wg => tasks' # tasks
       ]_vars

C11_Witness ==
  /\ faults
  /\ wg = 1
  /\ tasks = 1
  /\ running = 0

\* C12: app.wg.Wait() does not return while a spawned task is unfinished,
\* and it does return once every spawned task has ended, also when one of
\* them ended by a fault.
C12_WaitCoversTasks ==
  /\ [][(sigPc = "wait" /\ sigPc' = "sendNil") => (tasks = 0 /\ running = 0)]_vars
  /\ []<>~(sigPc = "wait" /\ tasks = 0 /\ Alive)

C12_Witness ==
  /\ sigPc = "sendNil"
  /\ sdErr = "nil"
  /\ overrun
  /\ faults
  /\ lateSpawn

\* C13: a fault inside a background task ends that task only: the process
\* never exits by a panic, the spawning handler and serve() are where they
\* were, the count is decremented, and a Wait() that is in progress still
\* returns.
C13_FaultIsContained ==
  /\ [](exitCode # PanicExit)
  /\ [][(faults' /\ ~faults) =>
          /\ mainPc' = mainPc
          /\ sigPc' = sigPc
          /\ conn' = conn
          /\ wg' = wg - 1
       ]_vars
  /\ (faults /\ sigPc = "wait" /\ Alive) ~> (sigPc # "wait" \/ ~Alive)

C13_Witness ==
  /\ faults
  /\ Alive
  /\ sigPc = "sendNil"
  /\ \E c \in Conns : conn[c] = "spawned"

\* C16: one drain per process lifetime: once draining, the acceptor shutdown
\* is not entered again, app.wg.Wait() is not entered again once it has
\* returned, a further signal changes nothing but the signal buffer, and
\* the result serve() has reported stays what it is.
C16_OneDrainOnly ==
  [][ /\ Draining => deadlineAt' = deadlineAt
      /\ (Draining /\ sigPc # "shutdown") => sigPc' # "shutdown"
      /\ sigPc \in {"sendNil", "done"} => sigPc' \in {"sendNil", "done"}
      /\ (Draining /\ signals' # signals) =>
            UNCHANGED <<mainPc, sigPc, result, exitCode, sdErr, inShutdown,
                        conn, wg, tasks>>
      /\ Returned => result' = result
    ]_vars

C16_Witness ==
  /\ signals = 2
  /\ quit = 1
  /\ Draining
  /\ mainPc = "returned"
  /\ result = "nil"

\* C17: a drain whose acceptor shutdown failed makes serve() return an
\* error, an error from serve() makes the process exit with status 1, and
\* serve() returns an error only for a failed shutdown or a failed
\* ListenAndServe, never for a fault of a background task.
C17_ForcedStopIsFatal ==
  /\ (Returned /\ sdErr = "ErrDeadline") => result \notin {"nil", "none"}
  /\ (mainPc = "exited" /\ result # "nil") => exitCode = 1
  /\ (mainPc = "exited" /\ result = "nil") => exitCode = 0
  /\ (Returned /\ result # "nil") => (sdErr = "ErrDeadline" \/ lsErr = "ErrListen")

C17_Witness ==
  /\ mainPc = "exited"
  /\ exitCode = 1
  /\ result = "ErrDeadline"
  /\ faults

\* The coordinator state of spec section 4.3, read off serve()
Phase ==
  IF deadlineAt = NoTime THEN "Running"
  ELSE IF sdErr = "ErrDeadline" THEN "ForcedStop"
  ELSE IF sdErr = "nil" /\ sigPc \in {"sendNil", "done"} THEN "Stopped"
  ELSE "Draining"

\* C18: the coordinator only moves Running -> Draining -> Stopped or
\* Running -> Draining -> ForcedStop; Draining is entered by the one receive
\* of the first buffered signal, nothing leaves Stopped or ForcedStop, and
\* serve() returns once, with a result that never changes afterwards.
C18_PhasesOnlyForward ==
  [][ /\ \/ Phase' = Phase
         \/ <<Phase, Phase'>> \in {<<"Running", "Draining">>,
                                  <<"Draining", "Stopped">>,
                                  <<"Draining", "ForcedStop">>}
      /\ (Phase = "Running" /\ Phase' # "Running") =>
            (sigPc = "waitsig" /\ quit = 1 /\ quit' = 0 /\ signals >= 1)
      /\ Returned => (Returned' /\ result' = result /\ retAt' = retAt)
    ]_vars

C18_Witness ==
  /\ Phase = "ForcedStop"
  /\ sigPc = "sendNil"
  /\ mainPc = "returned"
  /\ result = "ErrDeadline"

\* C27: when srv.Shutdown returns an error the goroutine's send of it is met
\* by the one receive of serve(), which returns that error at once, with
\* background tasks possibly still running; serve() receives once and its
\* result never changes afterwards; the goroutine goes on to wg.Wait() and
\* its later send of nil is never received: it never gets past that send.
C27_ShutdownErrorReturnedOnce ==
  /\ [][(sigPc = "sendErr" /\ sigPc' # "sendErr") =>
          /\ mainPc = "recv" /\ mainPc' = "returned"
          /\ sdErr = "ErrDeadline"
          /\ result' = sdErr
          /\ retAt' = stime
          /\ sigPc' = "wait"
       ]_vars
  /\ [][(sigPc \in {"sendErr", "sendNil"} /\ sigPc' # sigPc) =>
          (mainPc = "recv" /\ mainPc' = "returned")
       ]_vars
  /\ [][Returned => (Returned' /\ result' = result)]_vars
  /\ [](result = "ErrDeadline" => sigPc \in {"wait", "sendNil"})
  /\ [](sigPc = "done" => result = "nil")

\* serve() has returned the error while a background task is still running
\* and the goroutine waits for it
C27_Witness ==
  /\ result = "ErrDeadline"
  /\ mainPc = "returned"
  /\ sigPc = "wait"
  /\ tasks > 0
  /\ wg > 0

\* The goroutine is blocked at a send on shutdownError
Sending == sigPc \in {"sendErr", "sendNil"}

\* C28: every send of the goroutine on shutdownError is matched by the
\* receive of serve(): a goroutine at a send never finds that serve() has
\* already returned.
C28_EverySendMatched == Sending => ~Returned

\* C28 (amended): once the signal is handled, before or after ListenAndServe
\* began to accept, serve() returns; unless ListenAndServe had failed it
\* returns by its receive, which has matched the first send of the
\* goroutine; and a send is left unmatched only after a listen failure or
\* when it is the send of nil that follows a reported Shutdown error.
C28_ServeReturns ==
  /\ (sigPc = "shutdown") ~> Returned
  /\ [](Returned /\ lsErr # "ErrListen" =>
          /\ lsErr = "ErrServerClosed"
          /\ \/ result = "nil" /\ sigPc = "done"
             \/ result = "ErrDeadline" /\ sigPc \in {"wait", "sendNil"})
  /\ [](Sending /\ Returned =>
          \/ lsErr = "ErrListen"
          \/ sigPc = "sendNil" /\ result = "ErrDeadline")

\* the goroutine is at its send before serve() has called ListenAndServe
C28_Witness ==
  /\ mainPc = "start"
  /\ sigPc = "sendNil"
  /\ inShutdown
  /\ result = "none"

\* =================================================================
\* Properties of the record updates (checked under UpdateSpec)
\* =================================================================
\* Update calls in flight that read version v
Pending(v) == {i \in Updaters : upd[i].pc = "read" /\ upd[i].version = v}

TypeOK ==
  /\ enabled \in BOOLEAN
  /\ now >= 0
  /\ DOMAIN clients \subseteq Keys
  /\ mu \in {NoOwner, EvictId} \cup Reqs
  /\ wg \in 0..MaxTasks
  /\ tasks \in 0..MaxTasks
  /\ quit \in 0..1
  /\ row.version \in FirstVersion..(MaxVersion + 1)
  /\ \A i \in Updaters : upd[i].pc \in {"idle", "read", "done"}
====
